---- MODULE Spec2Model ----
(***************************************************************************)
(* Model of the weather tool server (src/src/main.rs): the generic fetch   *)
(* operation make_request, the two tool handlers get_alerts and            *)
(* get_forecast, and the two formatting functions.  The upstream weather   *)
(* API is the environment: every request gets a nondeterministic answer    *)
(* (transport failure, or a status with a body).                           *)
(*                                                                         *)
(* Text is modelled by TLA+ strings, built with \o exactly as format!      *)
(* builds it.  A JSON value is a record with one field that names its      *)
(* kind: [str |-> text], [int |-> n] (an integer of the i32 range),        *)
(* [num |-> text] (any other number, kept as its text), [null |-> TRUE],   *)
(* [obj |-> record of the members], [arr |-> sequence of the elements].    *)
(* A body that is not JSON at all has wf = FALSE.                          *)
(*                                                                         *)
(* Only error-level tracing is kept (log); the info-level lines change     *)
(* nothing a handler returns.  A body is either delivered whole or is not  *)
(* JSON; a connection lost while the body is read is not distinguished     *)
(* from a body that does not parse.                                        *)
(***************************************************************************)
EXTENDS Integers, Sequences, FiniteSets, TLC

VARIABLES pc, tool, args, points, sent, resp, result, log

vars == <<pc, tool, args, points, sent, resp, result, log>>

(* Bounds of the model. *)
MaxLen == 2
NumInv == 2

Invocations == 1..NumInv

(***************************************************************************)
(* Program constants.                                                      *)
(***************************************************************************)
NWS_API_BASE == "https://api.weather.gov"

AlertsFailure == "No alerts found or an error occurred."
ForecastFailure == "No forecast found or an error occurred."
NoActiveAlerts == "No active alerts found."
NoForecastData == "No forecast data available."

(***************************************************************************)
(* Result<T, String>                                                       *)
(***************************************************************************)
Ok(v) == [ok |-> TRUE, val |-> v]
Err(e) == [ok |-> FALSE, err |-> e]

(***************************************************************************)
(* JSON values.                                                            *)
(***************************************************************************)
JStr(s) == [str |-> s]
JInt(n) == [int |-> n]
JNum(t) == [num |-> t]
JNull == [null |-> TRUE]
JObj(members) == [obj |-> members]
JArr(elements) == [arr |-> elements]

(***************************************************************************)
(* serde decoding.  A derived Deserialize reads a struct from a JSON       *)
(* object (every declared field required, undeclared keys ignored) or from *)
(* a JSON array holding the fields in declaration order; a String field    *)
(* needs a JSON string, an i32 field an integer of the i32 range, a Vec a  *)
(* JSON array; the decode fails as a whole when any nested value fails.    *)
(***************************************************************************)
AlertResponseFields == <<"features">>
FeatureFields == <<"properties">>
FeaturePropsFields == <<"event", "areaDesc", "severity", "status", "headline">>
PointsResponseFields == <<"properties">>
PointsPropsFields == <<"forecast">>
GridPointsResponseFields == <<"properties">>
GridPointsPropsFields == <<"periods">>
PeriodFields == <<"name", "temperature", "temperatureUnit", "windSpeed",
                  "windDirection", "shortForecast">>

(* The values of the declared fields of a struct, in declaration order. *)
FieldValues(v, fields) ==
    IF "obj" \in DOMAIN v
    THEN IF \A k \in 1..Len(fields) : fields[k] \in DOMAIN v.obj
         THEN Ok([k \in 1..Len(fields) |-> v.obj[fields[k]]])
         ELSE Err("missing field")
    ELSE IF "arr" \in DOMAIN v
    THEN IF Len(v.arr) = Len(fields) THEN Ok(v.arr) ELSE Err("invalid length")
    ELSE Err("invalid type")

DecodeString(v) == IF "str" \in DOMAIN v THEN Ok(v.str) ELSE Err("invalid type")
DecodeI32(v) == IF "int" \in DOMAIN v THEN Ok(v.int) ELSE Err("invalid type")

DecodeFeatureProps(v) ==
    LET f == FieldValues(v, FeaturePropsFields)
    IN IF ~f.ok THEN f
       ELSE IF \E k \in 1..5 : ~DecodeString(f.val[k]).ok THEN Err("invalid type")
       ELSE Ok([event |-> f.val[1].str, area_desc |-> f.val[2].str,
                severity |-> f.val[3].str, status |-> f.val[4].str,
                headline |-> f.val[5].str])

DecodeFeature(v) ==
    LET f == FieldValues(v, FeatureFields)
    IN IF ~f.ok THEN f
       ELSE LET p == DecodeFeatureProps(f.val[1])
            IN IF p.ok THEN Ok([properties |-> p.val]) ELSE p

(* Variant: elements that do not decode are skipped. *)
DecodeAlertResponse_lenient(v) ==
    LET f == FieldValues(v, AlertResponseFields)
    IN IF ~f.ok THEN f
       ELSE IF "arr" \notin DOMAIN f.val[1] THEN Err("invalid type")
       ELSE LET fs == SelectSeq(f.val[1].arr, LAMBDA e : DecodeFeature(e).ok)
            IN Ok([features |-> [k \in 1..Len(fs) |-> DecodeFeature(fs[k]).val]])

DecodeAlertResponse(v) ==
    LET f == FieldValues(v, AlertResponseFields)
    IN IF ~f.ok THEN f
       ELSE IF "arr" \notin DOMAIN f.val[1] THEN Err("invalid type")
       ELSE LET fs == f.val[1].arr
            IN IF \E k \in 1..Len(fs) : ~DecodeFeature(fs[k]).ok
               THEN Err("invalid element")
               ELSE Ok([features |-> [k \in 1..Len(fs) |-> DecodeFeature(fs[k]).val]])

DecodePointsProps(v) ==
    LET f == FieldValues(v, PointsPropsFields)
    IN IF ~f.ok THEN f
       ELSE IF ~DecodeString(f.val[1]).ok THEN Err("invalid type")
       ELSE Ok([forecast |-> f.val[1].str])

DecodePointsResponse(v) ==
    LET f == FieldValues(v, PointsResponseFields)
    IN IF ~f.ok THEN f
       ELSE LET p == DecodePointsProps(f.val[1])
            IN IF p.ok THEN Ok([properties |-> p.val]) ELSE p

DecodePeriod(v) ==
    LET f == FieldValues(v, PeriodFields)
    IN IF ~f.ok THEN f
       ELSE IF \E k \in {1, 3, 4, 5, 6} : ~DecodeString(f.val[k]).ok
       THEN Err("invalid type")
       ELSE IF ~DecodeI32(f.val[2]).ok THEN Err("invalid type")
       ELSE Ok([name |-> f.val[1].str, temperature |-> f.val[2].int,
                temperature_unit |-> f.val[3].str,
                wind_speed |-> f.val[4].str,
                wind_direction |-> f.val[5].str,
                short_forecast |-> f.val[6].str])

DecodeGridPointsProps(v) ==
    LET f == FieldValues(v, GridPointsPropsFields)
    IN IF ~f.ok THEN f
       ELSE IF "arr" \notin DOMAIN f.val[1] THEN Err("invalid type")
       ELSE LET ps == f.val[1].arr
            IN IF \E k \in 1..Len(ps) : ~DecodePeriod(ps[k]).ok
               THEN Err("invalid element")
               ELSE Ok([periods |-> [k \in 1..Len(ps) |-> DecodePeriod(ps[k]).val]])

DecodeGridPointsResponse(v) ==
    LET f == FieldValues(v, GridPointsResponseFields)
    IN IF ~f.ok THEN f
       ELSE LET p == DecodeGridPointsProps(f.val[1])
            IN IF p.ok THEN Ok([properties |-> p.val]) ELSE p

(* response.json::<T>() on a body. *)
Decode(shape, body) ==
    IF ~body.wf THEN Err("expected value")
    ELSE CASE shape = "AlertResponse" -> DecodeAlertResponse(body.doc)
           [] shape = "PointsResponse" -> DecodePointsResponse(body.doc)
           [] shape = "GridPointsResponse" -> DecodeGridPointsResponse(body.doc)

(***************************************************************************)
(* Formatting.                                                             *)
(***************************************************************************)
AlertBlock(alert) ==
    "Event: " \o alert.properties.event
    \o "\nArea: " \o alert.properties.area_desc
    \o "\nSeverity: " \o alert.properties.severity
    \o "\nStatus: " \o alert.properties.status
    \o "\nHeadline: " \o alert.properties.headline
    \o "\n---\n"

RECURSIVE AlertBlocks(_)
AlertBlocks(alerts) ==
    IF alerts = <<>> THEN ""
    ELSE AlertBlock(Head(alerts)) \o AlertBlocks(Tail(alerts))

(* Variant: the loop stops one alert early. *)
format_alerts_drop_last(alerts) ==
    IF Len(alerts) = 0 THEN NoActiveAlerts
    ELSE AlertBlocks(SubSeq(alerts, 1, Len(alerts) - 1))

format_alerts(alerts) ==
    IF Len(alerts) = 0 THEN NoActiveAlerts ELSE AlertBlocks(alerts)

PeriodBlock(period) ==
    "Name: " \o period.name
    \o "\nTemperature: " \o ToString(period.temperature)
    \o "Â°" \o period.temperature_unit
    \o "\nWind: " \o period.wind_speed \o " " \o period.wind_direction
    \o "\nForecast: " \o period.short_forecast
    \o "\n---\n"

RECURSIVE PeriodBlocks(_)
PeriodBlocks(periods) ==
    IF periods = <<>> THEN ""
    ELSE PeriodBlock(Head(periods)) \o PeriodBlocks(Tail(periods))

(* Variant: no special case for the empty list. *)
format_forecast_no_empty_check(periods) == PeriodBlocks(periods)

format_forecast(periods) ==
    IF Len(periods) = 0 THEN NoForecastData ELSE PeriodBlocks(periods)

(***************************************************************************)
(* make_request: what the fetch returns for the answer r of the upstream.  *)
(***************************************************************************)
CanonicalReason(s) ==
    CASE s = 100 -> "Continue"
      [] s = 101 -> "Switching Protocols"
      [] s = 102 -> "Processing"
      [] s = 103 -> "Early Hints"
      [] s = 200 -> "OK"
      [] s = 201 -> "Created"
      [] s = 202 -> "Accepted"
      [] s = 203 -> "Non Authoritative Information"
      [] s = 204 -> "No Content"
      [] s = 205 -> "Reset Content"
      [] s = 206 -> "Partial Content"
      [] s = 207 -> "Multi-Status"
      [] s = 208 -> "Already Reported"
      [] s = 226 -> "IM Used"
      [] s = 300 -> "Multiple Choices"
      [] s = 301 -> "Moved Permanently"
      [] s = 302 -> "Found"
      [] s = 303 -> "See Other"
      [] s = 304 -> "Not Modified"
      [] s = 305 -> "Use Proxy"
      [] s = 307 -> "Temporary Redirect"
      [] s = 308 -> "Permanent Redirect"
      [] s = 400 -> "Bad Request"
      [] s = 401 -> "Unauthorized"
      [] s = 402 -> "Payment Required"
      [] s = 403 -> "Forbidden"
      [] s = 404 -> "Not Found"
      [] s = 405 -> "Method Not Allowed"
      [] s = 406 -> "Not Acceptable"
      [] s = 407 -> "Proxy Authentication Required"
      [] s = 408 -> "Request Timeout"
      [] s = 409 -> "Conflict"
      [] s = 410 -> "Gone"
      [] s = 411 -> "Length Required"
      [] s = 412 -> "Precondition Failed"
      [] s = 413 -> "Payload Too Large"
      [] s = 414 -> "URI Too Long"
      [] s = 415 -> "Unsupported Media Type"
      [] s = 416 -> "Range Not Satisfiable"
      [] s = 417 -> "Expectation Failed"
      [] s = 418 -> "I'm a teapot"
      [] s = 421 -> "Misdirected Request"
      [] s = 422 -> "Unprocessable Entity"
      [] s = 423 -> "Locked"
      [] s = 424 -> "Failed Dependency"
      [] s = 425 -> "Too Early"
      [] s = 426 -> "Upgrade Required"
      [] s = 428 -> "Precondition Required"
      [] s = 429 -> "Too Many Requests"
      [] s = 431 -> "Request Header Fields Too Large"
      [] s = 451 -> "Unavailable For Legal Reasons"
      [] s = 500 -> "Internal Server Error"
      [] s = 501 -> "Not Implemented"
      [] s = 502 -> "Bad Gateway"
      [] s = 503 -> "Service Unavailable"
      [] s = 504 -> "Gateway Timeout"
      [] s = 505 -> "HTTP Version Not Supported"
      [] s = 506 -> "Variant Also Negotiates"
      [] s = 507 -> "Insufficient Storage"
      [] s = 508 -> "Loop Detected"
      [] s = 510 -> "Not Extended"
      [] s = 511 -> "Network Authentication Required"
      [] OTHER -> "<unknown status code>"

(* Display of a StatusCode: the number and its canonical reason. *)
StatusText(s) == ToString(s) \o " " \o CanonicalReason(s)

(* Variant: every 2xx status is parsed (status().is_success()). *)
make_request_any_success(shape, r) ==
    IF r.kind = "transport"
    THEN Err("Request failed: " \o r.cause)
    ELSE IF r.status \in 200..299
         THEN LET d == Decode(shape, r.body)
              IN IF d.ok THEN d
                 ELSE Err("Failed to parse response: error decoding response body")
         ELSE Err("Request failed with status: " \o StatusText(r.status))

make_request(shape, r) ==
    IF r.kind = "transport"
    THEN Err("Request failed: " \o r.cause)
    ELSE IF r.status = 200
         THEN LET d == Decode(shape, r.body)
              IN IF d.ok THEN d
                 ELSE Err("Failed to parse response: error decoding response body")
         ELSE Err("Request failed with status: " \o StatusText(r.status))

(***************************************************************************)
(* What the upstream can answer.                                           *)
(***************************************************************************)
SeqsUpTo(S, n) == UNION {[1..k -> S] : k \in 0..n}

NotJson == [wf |-> FALSE, doc |-> JNull]
ProblemDoc ==
    [wf |-> TRUE, doc |-> JObj([title |-> JStr("Not Found"), status |-> JInt(404)])]

(* F1 plain, F2 with undeclared keys, F3 without headline, F4 with a       *)
(* headline that is not a string, F5 with the properties as an array.      *)
F1 == JObj([properties |->
              JObj([event |-> JStr("Flood"), areaDesc |-> JStr("King"),
                    severity |-> JStr("Severe"), status |-> JStr("Actual"),
                    headline |-> JStr("H1")])])
F2 == JObj([id |-> JStr("urn:2"),
            properties |->
              JObj([event |-> JStr("Wind"), areaDesc |-> JStr("Pierce"),
                    severity |-> JStr("Minor"), status |-> JStr("Test"),
                    headline |-> JStr("H2"), certainty |-> JStr("Likely")])])
F3 == JObj([properties |->
              JObj([event |-> JStr("Heat"), areaDesc |-> JStr("Clark"),
                    severity |-> JStr("Moderate"), status |-> JStr("Actual")])])
F4 == JObj([properties |->
              JObj([event |-> JStr("Fog"), areaDesc |-> JStr("Skagit"),
                    severity |-> JStr("Minor"), status |-> JStr("Actual"),
                    headline |-> JInt(7)])])
F5 == JObj([properties |->
              JArr(<<JStr("Snow"), JStr("Chelan"), JStr("Severe"),
                     JStr("Actual"), JStr("H5")>>)])
FeatureObjs == {F1, F2, F3, F4, F5}

(* P1 plain, P2 with an undeclared key and a negative temperature, P3      *)
(* without shortForecast, P4 with a temperature that is a string, P5 with  *)
(* a temperature that is not an integer.                                   *)
P1 == JObj([name |-> JStr("Tonight"), temperature |-> JInt(40),
            temperatureUnit |-> JStr("F"), windSpeed |-> JStr("5 mph"),
            windDirection |-> JStr("NW"), shortForecast |-> JStr("Clear")])
P2 == JObj([number |-> JInt(2), name |-> JStr("Tomorrow"),
            temperature |-> JInt(-5), temperatureUnit |-> JStr("C"),
            windSpeed |-> JStr("10 mph"), windDirection |-> JStr("S"),
            shortForecast |-> JStr("Snow")])
P3 == JObj([name |-> JStr("Friday"), temperature |-> JInt(55),
            temperatureUnit |-> JStr("F"), windSpeed |-> JStr("2 mph"),
            windDirection |-> JStr("E")])
P4 == JObj([name |-> JStr("Tonight"), temperature |-> JStr("40"),
            temperatureUnit |-> JStr("F"), windSpeed |-> JStr("5 mph"),
            windDirection |-> JStr("NW"), shortForecast |-> JStr("Clear")])
P5 == JObj([name |-> JStr("Sunday"), temperature |-> JNum("40.5"),
            temperatureUnit |-> JStr("F"), windSpeed |-> JStr("5 mph"),
            windDirection |-> JStr("NW"), shortForecast |-> JStr("Rain")])
PeriodObjs == {P1, P2, P3, P4, P5}

ForecastUrl1 == NWS_API_BASE \o "/gridpoints/SEW/124,67/forecast"
ForecastUrl2 == NWS_API_BASE \o "/gridpoints/EWX/156,91/forecast"
ForecastUrls == {ForecastUrl1, ForecastUrl2}

AlertsBody(fs) == [wf |-> TRUE, doc |-> JObj([features |-> JArr(fs)])]
PointsBody(u) ==
    [wf |-> TRUE, doc |-> JObj([properties |-> JObj([forecast |-> JStr(u)])])]
PointsBodyNoForecast ==
    [wf |-> TRUE,
     doc |-> JObj([properties |-> JObj([forecastHourly |-> JStr(ForecastUrl1)])])]
PointsBodyNumber ==
    [wf |-> TRUE, doc |-> JObj([properties |-> JObj([forecast |-> JInt(5)])])]
PointsBodyArrays ==
    [wf |-> TRUE, doc |-> JArr(<<JArr(<<JStr(ForecastUrl2)>>)>>)]
GridBody(ps) ==
    [wf |-> TRUE, doc |-> JObj([properties |-> JObj([periods |-> JArr(ps)])])]

AlertBodies ==
    {NotJson, ProblemDoc} \cup {AlertsBody(fs) : fs \in SeqsUpTo(FeatureObjs, MaxLen)}
PointsBodies ==
    {NotJson, ProblemDoc, PointsBodyNoForecast, PointsBodyNumber, PointsBodyArrays}
    \cup {PointsBody(u) : u \in ForecastUrls}
GridBodies ==
    {NotJson, ProblemDoc} \cup {GridBody(ps) : ps \in SeqsUpTo(PeriodObjs, MaxLen)}

Statuses == {200, 201, 204, 404, 500}
TransportCauses == {"connect", "timeout"}

Transport(c) == [kind |-> "transport", cause |-> c]
Http(s, b) == [kind |-> "http", status |-> s, body |-> b]

(* The status line and headers of a 200 answer, its body still to come. *)
Head200 == [kind |-> "http", status |-> 200]

(* What send() can resolve to: a transport failure, an answer with another *)
(* status (whose body is never read), or the head of a 200 answer.         *)
Heads(bodies) ==
    {Transport(c) : c \in TransportCauses}
    \cup {Http(s, b) : s \in Statuses \ {200}, b \in bodies}
    \cup {Head200}

States == {"WA", "TX"}
Latitudes == {"47.6"}
Longitudes == {"-122.3", "-97.7"}

(* The smaller answers used when several invocations run concurrently. *)
AlertHeadsC == {Transport("connect"), Http(404, ProblemDoc), Head200}
AlertBodiesC == {AlertsBody(<<F1>>), AlertsBody(<<F1, F3>>)}
PointsHeadsC == {Transport("connect"), Head200}
PointsBodiesC == {PointsBody(ForecastUrl1), PointsBody(ForecastUrl2)}
GridHeadsC == {Http(500, NotJson), Head200}
GridBodiesC == {GridBody(<<P1>>), GridBody(<<>>)}

(***************************************************************************)
(* The server: every invocation is a task with its own locals; the HTTP    *)
(* client is shared and keeps no state between requests.  A task yields at *)
(* each await: at send() until the head of the answer is in, and, for a    *)
(* 200 answer, at json() until the body is in.                             *)
(***************************************************************************)
NoPoints == [properties |-> [forecast |-> ""]]

Init ==
    /\ pc = [i \in Invocations |-> "idle"]
    /\ tool = [i \in Invocations |-> "none"]
    /\ args = [i \in Invocations |-> <<>>]
    /\ points = [i \in Invocations |-> NoPoints]
    /\ sent = <<>>
    /\ resp = [i \in Invocations |-> <<>>]
    /\ result = [i \in Invocations |-> <<>>]
    /\ log = <<>>

Request(i, url, shape) == [inv |-> i, url |-> url, shape |-> shape]

Is200(r) == r.kind = "http" /\ r.status = 200

alerts_url(state) == NWS_API_BASE \o "/alerts/active?area=" \o state
points_url(latitude, longitude) ==
    NWS_API_BASE \o "/points/" \o latitude \o "," \o longitude

(* Variant: the forecast URL is remembered across invocations. *)
forecast_url_cached(pts) ==
    LET grid == SelectSeq(sent, LAMBDA q : q.shape = "GridPointsResponse")
    IN IF grid = <<>> THEN pts.properties.forecast ELSE grid[1].url

forecast_url(pts) == pts.properties.forecast

(* Variant: the fetch error is handed to the caller. *)
get_alerts_match_surfacing(res) ==
    IF res.ok THEN format_alerts(res.val.features) ELSE res.err

(* The match on the fetched alerts at the end of get_alerts. *)
get_alerts_match(res) ==
    IF res.ok THEN format_alerts(res.val.features) ELSE AlertsFailure

(* Variant: a failure of the second request is reported as "no data". *)
get_forecast_match_distinct(res) ==
    IF res.ok THEN format_forecast(res.val.properties.periods) ELSE NoForecastData

(* The match on the fetched forecast at the end of get_forecast. *)
get_forecast_match(res) ==
    IF res.ok THEN format_forecast(res.val.properties.periods) ELSE ForecastFailure

(* Error-level tracing of a failed fetch; nothing is logged on success. *)
LogError(res, what) ==
    IF res.ok THEN log ELSE Append(log, "Failed to fetch " \o what \o ": " \o res.err)

(* get_alerts up to the await of send(). *)
CallGetAlerts(i, state) ==
    /\ pc[i] = "idle"
    /\ tool' = [tool EXCEPT ![i] = "get_alerts"]
    /\ args' = [args EXCEPT ![i] = <<state>>]
    /\ sent' = Append(sent, Request(i, alerts_url(state), "AlertResponse"))
    /\ pc' = [pc EXCEPT ![i] = "alerts"]
    /\ UNCHANGED <<points, resp, result, log>>

(* get_alerts from the return of make_request, given the whole answer r,   *)
(* to its own return.                                                      *)
AlertsComplete(i, r) ==
    /\ resp' = [resp EXCEPT ![i] = Append(@, r)]
    /\ LET res == make_request("AlertResponse", r)
       IN /\ log' = LogError(res, "alerts")
          /\ result' = [result EXCEPT ![i] = Append(@, get_alerts_match(res))]
    /\ pc' = [pc EXCEPT ![i] = "done"]
    /\ UNCHANGED <<tool, args, points, sent>>

(* Variant: a fetch that failed at send() or on its status is tried once   *)
(* more.                                                                   *)
AlertsStatus_retry(i, r) ==
    /\ pc[i] = "alerts"
    /\ IF Is200(r)
       THEN /\ pc' = [pc EXCEPT ![i] = "alerts_body"]
            /\ UNCHANGED <<tool, args, points, sent, resp, result, log>>
       ELSE IF Len(resp[i]) = 0
       THEN /\ resp' = [resp EXCEPT ![i] = Append(@, r)]
            /\ sent' = Append(sent, Request(i, alerts_url(args[i][1]), "AlertResponse"))
            /\ log' = LogError(make_request("AlertResponse", r), "alerts")
            /\ UNCHANGED <<tool, args, points, result, pc>>
       ELSE AlertsComplete(i, r)

(* get_alerts when send() resolves: a 200 answer goes on to the await of   *)
(* json(); anything else is an error and the handler returns.              *)
AlertsStatus(i, r) ==
    /\ pc[i] = "alerts"
    /\ IF Is200(r)
       THEN /\ pc' = [pc EXCEPT ![i] = "alerts_body"]
            /\ UNCHANGED <<tool, args, points, sent, resp, result, log>>
       ELSE AlertsComplete(i, r)

(* get_alerts when json() resolves on the body b of a 200 answer. *)
AlertsJson(i, b) ==
    /\ pc[i] = "alerts_body"
    /\ AlertsComplete(i, Http(200, b))

(* get_forecast up to the await of send() of the points lookup. *)
CallGetForecast(i, latitude, longitude) ==
    /\ pc[i] = "idle"
    /\ tool' = [tool EXCEPT ![i] = "get_forecast"]
    /\ args' = [args EXCEPT ![i] = <<latitude, longitude>>]
    /\ sent' = Append(sent, Request(i, points_url(latitude, longitude), "PointsResponse"))
    /\ pc' = [pc EXCEPT ![i] = "points"]
    /\ UNCHANGED <<points, resp, result, log>>

(* get_forecast from the return of the points lookup, given the whole      *)
(* answer r, to the await of send() of the forecast request, or to the     *)
(* early return.                                                           *)
PointsComplete(i, r) ==
    /\ resp' = [resp EXCEPT ![i] = Append(@, r)]
    /\ LET res == make_request("PointsResponse", r)
       IN IF res.ok
          THEN /\ points' = [points EXCEPT ![i] = res.val]
               /\ sent' = Append(sent, Request(i, forecast_url(res.val), "GridPointsResponse"))
               /\ pc' = [pc EXCEPT ![i] = "grid"]
               /\ UNCHANGED <<result, log>>
          ELSE /\ log' = LogError(res, "points")
               /\ result' = [result EXCEPT ![i] = Append(@, ForecastFailure)]
               /\ pc' = [pc EXCEPT ![i] = "done"]
               /\ UNCHANGED <<points, sent>>
    /\ UNCHANGED <<tool, args>>

(* Variant: a points lookup that failed at send() or on its status falls   *)
(* through to the second request.                                          *)
PointsStatus_fall_through(i, r) ==
    /\ pc[i] = "points"
    /\ IF Is200(r)
       THEN /\ pc' = [pc EXCEPT ![i] = "points_body"]
            /\ UNCHANGED <<tool, args, points, sent, resp, result, log>>
       ELSE /\ resp' = [resp EXCEPT ![i] = Append(@, r)]
            /\ sent' = Append(sent, Request(i, forecast_url(NoPoints), "GridPointsResponse"))
            /\ log' = LogError(make_request("PointsResponse", r), "points")
            /\ pc' = [pc EXCEPT ![i] = "grid"]
            /\ UNCHANGED <<tool, args, points, result>>

(* get_forecast when send() of the points lookup resolves. *)
PointsStatus(i, r) ==
    /\ pc[i] = "points"
    /\ IF Is200(r)
       THEN /\ pc' = [pc EXCEPT ![i] = "points_body"]
            /\ UNCHANGED <<tool, args, points, sent, resp, result, log>>
       ELSE PointsComplete(i, r)

(* get_forecast when json() of the points lookup resolves on the body b. *)
PointsJson(i, b) ==
    /\ pc[i] = "points_body"
    /\ PointsComplete(i, Http(200, b))

(* get_forecast from the return of the forecast request, given the whole   *)
(* answer r, to its own return.                                            *)
GridComplete(i, r) ==
    /\ resp' = [resp EXCEPT ![i] = Append(@, r)]
    /\ LET res == make_request("GridPointsResponse", r)
       IN /\ log' = LogError(res, "forecast")
          /\ result' = [result EXCEPT ![i] = Append(@, get_forecast_match(res))]
    /\ pc' = [pc EXCEPT ![i] = "done"]
    /\ UNCHANGED <<tool, args, points, sent>>

(* get_forecast when send() of the forecast request resolves. *)
GridStatus(i, r) ==
    /\ pc[i] = "grid"
    /\ IF Is200(r)
       THEN /\ pc' = [pc EXCEPT ![i] = "grid_body"]
            /\ UNCHANGED <<tool, args, points, sent, resp, result, log>>
       ELSE GridComplete(i, r)

(* get_forecast when json() of the forecast request resolves on the body b. *)
GridJson(i, b) ==
    /\ pc[i] = "grid_body"
    /\ GridComplete(i, Http(200, b))

(* One invocation, every answer the upstream can give. *)
Next ==
    \/ \E s \in States : CallGetAlerts(1, s)
    \/ \E r \in Heads(AlertBodies) : AlertsStatus(1, r)
    \/ \E b \in AlertBodies : AlertsJson(1, b)
    \/ \E la \in Latitudes, lo \in Longitudes : CallGetForecast(1, la, lo)
    \/ \E r \in Heads(PointsBodies) : PointsStatus(1, r)
    \/ \E b \in PointsBodies : PointsJson(1, b)
    \/ \E r \in Heads(GridBodies) : GridStatus(1, r)
    \/ \E b \in GridBodies : GridJson(1, b)

Spec == Init /\ [][Next]_vars

(* Concurrent invocations on the shared client. *)
NextC ==
    \/ \E i \in Invocations : CallGetAlerts(i, "WA")
    \/ \E i \in Invocations, r \in AlertHeadsC : AlertsStatus(i, r)
    \/ \E i \in Invocations, b \in AlertBodiesC : AlertsJson(i, b)
    \/ \E i \in Invocations : CallGetForecast(i, "47.6", "-122.3")
    \/ \E i \in Invocations, r \in PointsHeadsC : PointsStatus(i, r)
    \/ \E i \in Invocations, b \in PointsBodiesC : PointsJson(i, b)
    \/ \E i \in Invocations, r \in GridHeadsC : GridStatus(i, r)
    \/ \E i \in Invocations, b \in GridBodiesC : GridJson(i, b)

SpecC == Init /\ [][NextC]_vars

TypeOK ==
    /\ pc \in [Invocations -> {"idle", "alerts", "alerts_body", "points",
                               "points_body", "grid", "grid_body", "done"}]
    /\ tool \in [Invocations -> {"none", "get_alerts", "get_forecast"}]
    /\ \A i \in Invocations : Len(result[i]) <= 1 /\ Len(resp[i]) <= 2

(***************************************************************************)
(* Vocabulary of the properties.                                           *)
(***************************************************************************)
SentBy(i) == SelectSeq(sent, LAMBDA q : q.inv = i)
GridSentBy(i) == SelectSeq(sent, LAMBDA q : q.inv = i /\ q.shape = "GridPointsResponse")

(* The member of a struct value, in its object or in its array form. *)
Member(v, fields, name) ==
    IF "obj" \in DOMAIN v
    THEN v.obj[name]
    ELSE v.arr[CHOOSE k \in 1..Len(fields) : fields[k] = name]

HasMember(v, name) == "obj" \in DOMAIN v /\ name \in DOMAIN v.obj

(* The lists and the URL of an answer, from the upstream JSON. *)
RawFeatures(r) == Member(r.body.doc, AlertResponseFields, "features").arr
RawPeriods(r) ==
    Member(Member(r.body.doc, GridPointsResponseFields, "properties"),
           GridPointsPropsFields, "periods").arr
RawForecastUrl(r) ==
    Member(Member(r.body.doc, PointsResponseFields, "properties"),
           PointsPropsFields, "forecast").str

(* The three ways a fetch fails. *)
FetchFailed(shape, r) ==
    \/ r.kind = "transport"
    \/ r.kind = "http" /\ r.status # 200
    \/ r.kind = "http" /\ r.status = 200 /\ ~Decode(shape, r.body).ok

Returned(i) == pc[i] = "done"

(* C1: a get_alerts invocation whose fetch failed by transport error, by a *)
(* status other than 200 or by a body that does not decode returns exactly *)
(* "No alerts found or an error occurred.", and the error detail (which is *)
(* only logged) is not the returned text.                                  *)
C1_AlertsFailureText ==
    \A i \in Invocations :
        (Returned(i) /\ tool[i] = "get_alerts" /\ FetchFailed("AlertResponse", resp[i][1]))
        => /\ result[i] = <<"No alerts found or an error occurred.">>
           /\ \A k \in 1..Len(log) : result[i][1] # log[k]
           /\ Len(log) >= 1

C1_Witness ==
    /\ Returned(1) /\ tool[1] = "get_alerts"
    /\ resp[1][1].kind = "http" /\ resp[1][1].status = 200
    /\ ~Decode("AlertResponse", resp[1][1].body).ok

(* C2: a get_forecast invocation whose points lookup failed has issued no  *)
(* forecast-grid request and returns exactly "No forecast found or an      *)
(* error occurred."; a forecast-grid request exists only after a points    *)
(* lookup of the same invocation succeeded.                                *)
C2_PointsFailureShortCircuits ==
    \A i \in Invocations :
        /\ (tool[i] = "get_forecast" /\ Len(resp[i]) >= 1
            /\ FetchFailed("PointsResponse", resp[i][1]))
           => /\ GridSentBy(i) = <<>>
              /\ Returned(i)
              /\ result[i] = <<"No forecast found or an error occurred.">>
        /\ GridSentBy(i) # <<>>
           => /\ Len(resp[i]) >= 1
              /\ ~FetchFailed("PointsResponse", resp[i][1])

C2_Witness ==
    /\ Returned(1) /\ tool[1] = "get_forecast"
    /\ FetchFailed("PointsResponse", resp[1][1])
    /\ Len(SentBy(1)) = 1


(* The fetch made for the k-th answer of invocation i, and the line that  *)
(* the handler logs when that fetch returns the error e.                   *)
ShapeOf(i, k) == SentBy(i)[k].shape
ErrorLine(shape, e) ==
    (CASE shape = "AlertResponse" -> "Failed to fetch alerts: "
       [] shape = "PointsResponse" -> "Failed to fetch points: "
       [] shape = "GridPointsResponse" -> "Failed to fetch forecast: ") \o e

(* The k-th fetch of invocation i went through the parse branch: a body    *)
(* that decodes is handed to the handler, one that does not is a parse     *)
(* error.                                                                  *)
ParseBranch(i, k) ==
    LET d == Decode(ShapeOf(i, k), resp[i][k].body)
    IN IF d.ok
       THEN /\ k = Len(resp[i]) => log = <<>>
            /\ ShapeOf(i, k) = "AlertResponse"
               => result[i] = <<format_alerts(d.val.features)>>
            /\ ShapeOf(i, k) = "PointsResponse"
               => Len(SentBy(i)) = 2 /\ SentBy(i)[2].url = d.val.properties.forecast
            /\ ShapeOf(i, k) = "GridPointsResponse"
               => result[i] = <<format_forecast(d.val.properties.periods)>>
       ELSE log = <<ErrorLine(ShapeOf(i, k),
                              "Failed to parse response: error decoding response body")>>

StatusErrorBranch(i, k) ==
    log = <<ErrorLine(ShapeOf(i, k),
                      "Request failed with status: " \o StatusText(resp[i][k].status))>>

TransportErrorBranch(i, k) ==
    log = <<ErrorLine(ShapeOf(i, k), "Request failed: " \o resp[i][k].cause)>>

(* C3 as stated: every success status (200..299) leads to the parse        *)
(* branch, every other status to an error carrying the status, a transport *)
(* failure to an error carrying the cause.                                 *)
C3_Original ==
    \A k \in 1..Len(resp[1]) :
        LET r == resp[1][k]
        IN /\ (r.kind = "http" /\ r.status \in 200..299) => ParseBranch(1, k)
           /\ (r.kind = "http" /\ r.status \notin 200..299) => StatusErrorBranch(1, k)
           /\ r.kind = "transport" => TransportErrorBranch(1, k)

(* C3 amended: only status 200 leads to the parse branch; every other      *)
(* status, the other success statuses included, is an error carrying the   *)
(* status; a transport failure is an error carrying the cause.             *)
C3_Only200Parsed ==
    \A k \in 1..Len(resp[1]) :
        LET r == resp[1][k]
        IN /\ (r.kind = "http" /\ r.status = 200) => ParseBranch(1, k)
           /\ (r.kind = "http" /\ r.status # 200) => StatusErrorBranch(1, k)
           /\ r.kind = "transport" => TransportErrorBranch(1, k)

C3_Witness ==
    /\ Returned(1) /\ tool[1] = "get_alerts"
    /\ resp[1][1].kind = "http" /\ resp[1][1].status = 201
    /\ Decode("AlertResponse", resp[1][1].body).ok
    /\ log = <<"Failed to fetch alerts: Request failed with status: 201 Created">>

(* C4: when the points lookup succeeded and the second request failed, the *)
(* result is exactly "No forecast found or an error occurred.", the same   *)
(* text as for a failed points lookup.                                     *)
C4_SecondStepFailureText ==
    \A i \in Invocations :
        (Returned(i) /\ tool[i] = "get_forecast"
         /\ FetchFailed(ShapeOf(i, Len(resp[i])), resp[i][Len(resp[i])]))
        => result[i] = <<"No forecast found or an error occurred.">>

C4_Witness ==
    /\ Returned(1) /\ tool[1] = "get_forecast" /\ Len(resp[1]) = 2
    /\ ~FetchFailed("PointsResponse", resp[1][1])
    /\ FetchFailed("GridPointsResponse", resp[1][2])

(* The block of one alert, from the upstream JSON. *)
RawAlertBlock(f) ==
    LET p == Member(f, FeatureFields, "properties")
        Text(name) == Member(p, FeaturePropsFields, name).str
    IN "Event: " \o Text("event") \o "\n"
       \o "Area: " \o Text("areaDesc") \o "\n"
       \o "Severity: " \o Text("severity") \o "\n"
       \o "Status: " \o Text("status") \o "\n"
       \o "Headline: " \o Text("headline") \o "\n"
       \o "---\n"

RECURSIVE RawAlertBlocks(_)
RawAlertBlocks(fs) ==
    IF fs = <<>> THEN "" ELSE RawAlertBlock(Head(fs)) \o RawAlertBlocks(Tail(fs))

(* C5: a get_alerts invocation whose fetch succeeded with N alerts returns *)
(* "No active alerts found." when N = 0, and otherwise the N blocks of the *)
(* N alerts, in input order, each with Event, Area, Severity, Status,      *)
(* Headline and a closing "---" line.                                      *)
C5_AlertBlocks ==
    \A i \in Invocations :
        (Returned(i) /\ tool[i] = "get_alerts" /\ ~FetchFailed("AlertResponse", resp[i][1]))
        => LET fs == RawFeatures(resp[i][1])
           IN IF Len(fs) = 0
              THEN result[i] = <<"No active alerts found.">>
              ELSE result[i] = <<RawAlertBlocks(fs)>>

C5_Witness ==
    /\ Returned(1) /\ tool[1] = "get_alerts"
    /\ ~FetchFailed("AlertResponse", resp[1][1])
    /\ RawFeatures(resp[1][1]) = <<F2, F5>>

(* The block of one period as documented, from the upstream JSON. *)
RawPeriodBlock(p) ==
    LET Text(name) == Member(p, PeriodFields, name).str
    IN "Name: " \o Text("name") \o "\n"
       \o "Temperature: " \o ToString(Member(p, PeriodFields, "temperature").int)
       \o "°" \o Text("temperatureUnit") \o "\n"
       \o "Wind: " \o Text("windSpeed") \o " " \o Text("windDirection") \o "\n"
       \o "Forecast: " \o Text("shortForecast") \o "\n"
       \o "---\n"

RECURSIVE RawPeriodBlocks(_)
RawPeriodBlocks(ps) ==
    IF ps = <<>> THEN "" ELSE RawPeriodBlock(Head(ps)) \o RawPeriodBlocks(Tail(ps))

BothSucceeded(i) ==
    /\ tool[i] = "get_forecast" /\ Len(resp[i]) = 2
    /\ ~FetchFailed("PointsResponse", resp[i][1])
    /\ ~FetchFailed("GridPointsResponse", resp[i][2])

(* C6: when both requests of get_forecast succeeded with N >= 1 periods,   *)
(* the result is the N blocks in input order, the Temperature line being   *)
(* the integer, the single degree symbol and the unit with nothing else    *)
(* between them.                                                           *)
C6_ForecastBlocks ==
    \A i \in Invocations :
        (Returned(i) /\ BothSucceeded(i)
         /\ Len(RawPeriods(resp[i][2])) >= 1)
        => result[i] = <<RawPeriodBlocks(RawPeriods(resp[i][2]))>>

(* C7: "No forecast data available." is returned exactly when both         *)
(* requests of a get_forecast invocation succeeded and the period list is  *)
(* empty.                                                                  *)
C7_NoForecastData ==
    \A i \in Invocations :
        Returned(i) =>
            (result[i] = <<"No forecast data available.">>
             <=> (BothSucceeded(i)
                  /\ Len(RawPeriods(resp[i][2])) = 0))

C7_Witness ==
    /\ Returned(1) /\ BothSucceeded(1)
    /\ RawPeriods(resp[1][2]) = <<>>

(* An answer with status 200 and a JSON list in which some element lacks a *)
(* required field.                                                         *)
LacksOneOf(v, fields) ==
    "obj" \in DOMAIN v /\ \E j \in 1..Len(fields) : fields[j] \notin DOMAIN v.obj

AlertLacksField(r) ==
    /\ r.kind = "http" /\ r.status = 200 /\ r.body.wf
    /\ HasMember(r.body.doc, "features")
    /\ "arr" \in DOMAIN r.body.doc.obj.features
    /\ \E k \in 1..Len(r.body.doc.obj.features.arr) :
           LET e == r.body.doc.obj.features.arr[k]
           IN \/ LacksOneOf(e, FeatureFields)
              \/ HasMember(e, "properties")
                 /\ LacksOneOf(e.obj.properties, FeaturePropsFields)

PeriodLacksField(r) ==
    /\ r.kind = "http" /\ r.status = 200 /\ r.body.wf
    /\ HasMember(r.body.doc, "properties")
    /\ HasMember(r.body.doc.obj.properties, "periods")
    /\ "arr" \in DOMAIN r.body.doc.obj.properties.obj.periods
    /\ \E k \in 1..Len(r.body.doc.obj.properties.obj.periods.arr) :
           LacksOneOf(r.body.doc.obj.properties.obj.periods.arr[k], PeriodFields)

(* C8: decoding is all-or-nothing: when one alert (or period) of a status  *)
(* 200 answer lacks a required field, the handler returns its fixed        *)
(* failure text, never blocks for the well-formed elements.                *)
C8_AllOrNothing ==
    \A i \in Invocations :
        /\ (Returned(i) /\ tool[i] = "get_alerts" /\ AlertLacksField(resp[i][1]))
           => result[i] = <<"No alerts found or an error occurred.">>
        /\ (Returned(i) /\ tool[i] = "get_forecast" /\ Len(resp[i]) = 2
            /\ PeriodLacksField(resp[i][2]))
           => result[i] = <<"No forecast found or an error occurred.">>

C8_Witness ==
    /\ Returned(1) /\ tool[1] = "get_alerts"
    /\ resp[1][1].kind = "http" /\ resp[1][1].status = 200
    /\ resp[1][1].body = AlertsBody(<<F1, F3>>)


(* Requests of invocation i that have not been answered yet. *)
Outstanding(i) == Len(SentBy(i)) - Len(resp[i])

(* C9: no request is retried and the requests of one invocation never      *)
(* overlap: get_alerts issues exactly one GET; get_forecast issues one GET *)
(* to the points endpoint and then at most one to the forecast URL, the    *)
(* second only after the first was answered; after a failed request the    *)
(* invocation issues no further request and returns its single result.     *)
C9_NoRetryNoOverlap ==
    \A i \in Invocations :
        /\ Len(result[i]) <= 1
        /\ Returned(i) <=> Len(result[i]) = 1
        /\ tool[i] = "none" => SentBy(i) = <<>>
        /\ tool[i] = "get_alerts"
           => /\ Len(SentBy(i)) = 1
              /\ SentBy(i)[1].url = alerts_url(args[i][1])
        /\ tool[i] = "get_forecast"
           => /\ Len(SentBy(i)) \in {1, 2}
              /\ SentBy(i)[1].url = points_url(args[i][1], args[i][2])
              /\ Len(GridSentBy(i)) <= 1
              /\ Len(SentBy(i)) = 2 => SentBy(i)[2].shape = "GridPointsResponse"
        /\ Outstanding(i) \in {0, 1}
        /\ Returned(i) => Outstanding(i) = 0
        /\ \A k \in 1..Len(resp[i]) :
               FetchFailed(ShapeOf(i, k), resp[i][k])
               => Len(SentBy(i)) = k /\ Returned(i)

C9_Witness ==
    \E i, j \in Invocations :
        /\ Returned(i) /\ tool[i] = "get_alerts"
        /\ FetchFailed("AlertResponse", resp[i][1])
        /\ Returned(j) /\ tool[j] = "get_forecast" /\ Len(SentBy(j)) = 2

(* The result of an invocation as a function of its tool and of the        *)
(* answers to its own requests.                                            *)
OwnOutcome(t, rs) ==
    IF t = "get_alerts"
    THEN get_alerts_match(make_request("AlertResponse", rs[1]))
    ELSE IF Len(rs) = 1
         THEN ForecastFailure
         ELSE get_forecast_match(make_request("GridPointsResponse", rs[2]))

(* An invocation that has not returned can take its next step whatever     *)
(* the other invocations are doing.                                        *)
CanStep(i) ==
    /\ pc[i] = "idle" => /\ ENABLED CallGetAlerts(i, "WA")
                         /\ ENABLED CallGetForecast(i, "47.6", "-122.3")
    /\ pc[i] = "alerts" => ENABLED AlertsStatus(i, Head200)
    /\ pc[i] = "alerts_body" => ENABLED AlertsJson(i, NotJson)
    /\ pc[i] = "points" => ENABLED PointsStatus(i, Head200)
    /\ pc[i] = "points_body" => ENABLED PointsJson(i, NotJson)
    /\ pc[i] = "grid" => ENABLED GridStatus(i, Head200)
    /\ pc[i] = "grid_body" => ENABLED GridJson(i, NotJson)

(* C10: under any interleaving of invocations on the shared client, the    *)
(* second request of a get_forecast invocation goes to the forecast URL of *)
(* that invocation's own points answer, the result of an invocation is     *)
(* determined by its own tool and answers, and no invocation waits for     *)
(* another.                                                                *)
C10_Isolation ==
    \A i \in Invocations :
        /\ GridSentBy(i) # <<>>
           => /\ ~FetchFailed("PointsResponse", resp[i][1])
              /\ GridSentBy(i)[1].url = RawForecastUrl(resp[i][1])
        /\ Returned(i) => result[i] = <<OwnOutcome(tool[i], resp[i])>>
        /\ CanStep(i)

C10_Witness ==
    \E i, j \in Invocations :
        /\ GridSentBy(i) # <<>> /\ GridSentBy(j) # <<>>
        /\ GridSentBy(i)[1].url # GridSentBy(j)[1].url
        /\ Returned(i) /\ result[i] = <<"No forecast found or an error occurred.">>
        /\ Returned(j) /\ result[j] # <<"No forecast found or an error occurred.">>

====
